---- MODULE Spec2Model ----
(***************************************************************************)
(* Model of the History plugin of pictode (packages/plugin-history): the   *)
(* bounded undo/redo command log with execute, undo, redo and jump.        *)
(*                                                                         *)
(* A command is the record [id, executed] of the two BaseCmd fields the    *)
(* engine writes.  Every execute call receives a fresh command instance,   *)
(* as the host integration (install) constructs one per call.              *)
(*                                                                         *)
(* Optional values (BaseCmd | undefined) are sequences of length <= 1:     *)
(* <<>> is undefined, <<c>> is the command c.                              *)
(*                                                                         *)
(* The Selector service of packages/core (rubber-band selection and the    *)
(* transformer around the selected shapes) is modelled beside it, as the   *)
(* record selector of its fields and of the Konva nodes it owns.           *)
(***************************************************************************)
EXTENDS Integers, Sequences, FiniteSets, TLC

\* ---------------------------------------------------------------- bounds
MaxCmds == 3          \* execute calls per behaviour (caps idCounter)
MaxStackSize == 2     \* largest capacity given to the constructor / setStackSize
MaxStep == 2          \* largest step given to undo / redo
MaxCoord == 1         \* largest pointer coordinate on the stage

StackSizes == 1..MaxStackSize
Steps == 0..MaxStep
JumpIds == 0..(MaxCmds + 1)
NeedExecuteVals == {"true", "false", "omitted"}
Coords == 0..MaxCoord
Points == [x : Coords, y : Coords]
Children == {"a", "b"}     \* the ids of the shapes on the main layer
EnableArgs == {"true", "false", "omitted"}

VARIABLES
  undoStack,   \* History.undoStack
  redoStack,   \* History.redoStack
  idCounter,   \* History.idCounter
  stackSize,   \* History.stackSize
  enabled,     \* History.enabled
  installed,   \* History.app is set (install was called)
  call,        \* the last public call: its name, arguments and the state it started in
  prevCall,    \* the public call before that one
  ret,         \* what the last call returned
  emitted,     \* the notifications the last call emitted through app.emit, in order
  calls,       \* the command.execute() / command.undo() invocations of the last call
  idLog,       \* every id an execute call has assigned, in order of assignment
  thrown,      \* the last call ended by propagating an exception a command raised
  selector,    \* the Selector: its fields, its rubber rectangle and its transformer
  selCall,     \* the last Selector method or handler that ran, and the state it started in
  switchedOff  \* the Selector was last disabled by triggerSelector or dispose

vars == <<undoStack, redoStack, idCounter, stackSize, enabled, installed,
          call, prevCall, ret, emitted, calls, idLog, thrown,
          selector, selCall, switchedOff>>

\* ---------------------------------------------------------------- helpers
Undefined == <<>>

Min(a, b) == IF a < b THEN a ELSE b

Max(a, b) == IF a > b THEN a ELSE b
Some(c) == <<c>>
Last(s) == s[Len(s)]
Front(s) == SubSeq(s, 1, Len(s) - 1)

\* Faulty variant of Truthy: an omitted needExecute counts as true (needExecute !== false).
TruthyUnlessFalse(needExecute) == needExecute # "false"

\* if (needExecute): only the boolean true is truthy among the values modelled
Truthy(needExecute) == needExecute = "true"

\* The engine state threaded through one public call, with the call's outputs.
Here ==
  [undoStack |-> undoStack, redoStack |-> redoStack, idCounter |-> idCounter,
   stackSize |-> stackSize, enabled |-> enabled, installed |-> installed,
   ret |-> Undefined, emitted |-> <<>>, calls |-> <<>>,
   failAt |-> 0, thrown |-> FALSE, fires |-> FALSE]

\* The same, for a call during which the failAt-th command invocation raises.
Raising(failAt) == [Here EXCEPT !.failAt = failAt]

\* The same, for a call whose commands add their object to the canvas when they
\* are applied or reversed, so that the canvas fires object:added inside the call.
Firing == [Here EXCEPT !.fires = TRUE]

\* this.app?.emit(name, payload): nothing is emitted before install
Emit(h, event) ==
  IF h.installed THEN [h EXCEPT !.emitted = Append(@, event)] ELSE h

StackChanged(h) ==
  [name |-> "stack:changed", undoStack |-> h.undoStack, redoStack |-> h.redoStack]

\* command.execute() / command.undo(): opaque to the engine, recorded only. The
\* engine catches nothing: when the invocation raises, h.thrown is set and the
\* rest of every enclosing method is skipped.
Invoke(h, c, method) ==
  LET logged == [h EXCEPT !.calls = Append(@, [cmd |-> c.id, method |-> method])]
  IN IF Len(logged.calls) = h.failAt THEN [logged EXCEPT !.thrown = TRUE] ELSE logged

\* ---------------------------------------------------------------- setStackSize
\* Faulty variant of SetStackSizeOp: the stack is trimmed to the new capacity at once.
SetStackSizeOpTrims(h, size) ==
  [h EXCEPT !.stackSize = size,
            !.undoStack = IF Len(@) > size THEN SubSeq(@, Len(@) - size + 1, Len(@)) ELSE @]

\* this.stackSize = size
SetStackSizeOp(h, size) == [h EXCEPT !.stackSize = size]

\* ---------------------------------------------------------------- execute
\* Faulty variant of EvictOldest: eviction starts one entry later (length > size + 1).
EvictLate(us, size) == IF Len(us) > size + 1 THEN Tail(us) ELSE us

\* Faulty variant of EvictOldest: the newest entry is dropped (pop for shift).
EvictNewest(us, size) == IF Len(us) > size THEN Front(us) ELSE us

\* if (this.undoStack.length > this.stackSize) this.undoStack.shift();
EvictOldest(us, size) == IF Len(us) > size THEN Tail(us) ELSE us

\* ++this.idCounter
NextId(counter) == counter + 1

\* Faulty variant of ClearedRedo: the redo branch survives a new command.
KeptRedo(rs) == rs

\* this.redoStack = []
ClearedRedo(rs) == <<>>

\* Faulty variant of ExecuteOp: redoStack is cleared before command.execute() is called.
ExecuteOpClearsFirst(h, needExecute) ==
  LET id == NextId(h.idCounter)
      us == EvictOldest(h.undoStack, h.stackSize)
      pushed == [h EXCEPT !.undoStack = Append(us, [id |-> id, executed |-> FALSE]),
                          !.idCounter = id,
                          !.redoStack = ClearedRedo(@)]
      applied == IF Truthy(needExecute)
                 THEN Invoke(pushed, [id |-> id], "execute")
                 ELSE pushed
      stamped == [applied EXCEPT !.undoStack = Append(us, [id |-> id, executed |-> TRUE])]
  IN IF applied.thrown THEN applied ELSE Emit(stamped, StackChanged(stamped))

\* Faulty variant of ExecuteOp: executed is stamped only when the command was applied.
ExecuteOpStampsWhenApplied(h, needExecute) ==
  LET id == NextId(h.idCounter)
      us == EvictOldest(h.undoStack, h.stackSize)
      pushed == [h EXCEPT !.undoStack = Append(us, [id |-> id, executed |-> FALSE]),
                          !.idCounter = id]
      applied == IF Truthy(needExecute)
                 THEN Invoke(pushed, [id |-> id], "execute")
                 ELSE pushed
      stamped == [applied EXCEPT !.undoStack = Append(us, [id |-> id,
                                                  executed |-> Truthy(needExecute)]),
                                 !.redoStack = ClearedRedo(@)]
  IN IF applied.thrown THEN applied ELSE Emit(stamped, StackChanged(stamped))

ExecuteOp(h, needExecute) ==
  LET id == NextId(h.idCounter)
      us == EvictOldest(h.undoStack, h.stackSize)
      pushed == [h EXCEPT !.undoStack = Append(us, [id |-> id, executed |-> FALSE]),
                          !.idCounter = id]
      applied == IF Truthy(needExecute)
                 THEN Invoke(pushed, [id |-> id], "execute")
                 ELSE pushed
      stamped == [applied EXCEPT !.undoStack = Append(us, [id |-> id, executed |-> TRUE]),
                                 !.redoStack = ClearedRedo(@)]
  IN IF applied.thrown THEN applied ELSE Emit(stamped, StackChanged(stamped))

\* The observer install registers on the canvas:
\* canvas.on('object:added', ...) => if (this.app) this.execute(new AddObjectCmd(...))
ObjectAddedOp(h) == IF h.installed THEN ExecuteOp(h, "omitted") ELSE h

\* What a command invocation that returned does to the engine through the host:
\* nothing, unless its effect fires object:added, which runs the observer in-line.
HostEffect(h) == IF h.fires /\ ~h.thrown THEN ObjectAddedOp(h) ELSE h

\* ---------------------------------------------------------------- undo
\* Faulty variant of UndoStep: the undone command is discarded instead of pushed on redoStack.
UndoStepDrops(h) ==
  IF Len(h.undoStack) > 0
  THEN LET command == Last(h.undoStack)
           popped == [h EXCEPT !.undoStack = Front(@), !.ret = Some(command)]
           undone == HostEffect(Invoke(popped, command, "undo"))
       IN IF undone.thrown THEN undone ELSE Emit(undone, StackChanged(undone))
  ELSE h

\* Faulty variant of UndoStep: the command is pushed on redoStack before command.undo() is called.
UndoStepPushesFirst(h) ==
  IF Len(h.undoStack) > 0
  THEN LET command == Last(h.undoStack)
           popped == [h EXCEPT !.undoStack = Front(@), !.ret = Some(command),
                               !.redoStack = Append(@, command)]
           undone == HostEffect(Invoke(popped, command, "undo"))
       IN IF undone.thrown THEN undone ELSE Emit(undone, StackChanged(undone))
  ELSE h

\* Faulty variant of UndoStep: the undone command goes to the front of redoStack (unshift for push).
UndoStepUnshift(h) ==
  IF Len(h.undoStack) > 0
  THEN LET command == Last(h.undoStack)
           popped == [h EXCEPT !.undoStack = Front(@), !.ret = Some(command)]
           undone == HostEffect(Invoke(popped, command, "undo"))
           moved == [undone EXCEPT !.redoStack = <<command>> \o @]
       IN IF undone.thrown THEN undone ELSE Emit(moved, StackChanged(moved))
  ELSE h

\* Faulty variant of UndoStep: stack:changed is emitted before the push on redoStack.
UndoStepEmitsEarly(h) ==
  IF Len(h.undoStack) > 0
  THEN LET command == Last(h.undoStack)
           popped == [h EXCEPT !.undoStack = Front(@), !.ret = Some(command)]
           undone == HostEffect(Invoke(popped, command, "undo"))
           told == Emit(undone, StackChanged(undone))
       IN IF undone.thrown THEN undone ELSE [told EXCEPT !.redoStack = Append(@, command)]
  ELSE h

\* One iteration of the while loop of undo, before --step.
UndoStep(h) ==
  IF Len(h.undoStack) > 0
  THEN LET command == Last(h.undoStack)
           popped == [h EXCEPT !.undoStack = Front(@), !.ret = Some(command)]
           undone == HostEffect(Invoke(popped, command, "undo"))
           moved == [undone EXCEPT !.redoStack = Append(@, command)]
       IN IF undone.thrown THEN undone ELSE Emit(moved, StackChanged(moved))
  ELSE h

\* while (step) { ...; --step; }  h.ret carries the local variable command.
RECURSIVE UndoLoop(_, _)
UndoLoop(h, step) ==
  IF step # 0 /\ ~h.thrown THEN UndoLoop(UndoStep(h), step - 1) ELSE h

\* The value of step the loop leaves for the history:undo / history:redo payload.
RECURSIVE StepAfterLoop(_)
StepAfterLoop(step) ==
  IF step # 0 THEN StepAfterLoop(step - 1) ELSE step

\* Faulty variant of UndoOp: the enabled gate is missing.
UndoOpUngated(h, step) ==
  LET looped == UndoLoop([h EXCEPT !.ret = Undefined], step)
  IN IF looped.thrown
     THEN looped
     ELSE Emit(looped, [name |-> "history:undo", step |-> StepAfterLoop(step),
                        command |-> looped.ret])

UndoOp(h, step) ==
  IF ~h.enabled
  THEN [h EXCEPT !.ret = Undefined]
  ELSE LET looped == UndoLoop([h EXCEPT !.ret = Undefined], step)
       IN IF looped.thrown
          THEN looped
          ELSE Emit(looped, [name |-> "history:undo", step |-> StepAfterLoop(step),
                             command |-> looped.ret])

\* ---------------------------------------------------------------- redo
\* Faulty variant of RedoStep: takes the oldest undone command (shift) instead of the tail (pop).
RedoStepShift(h) ==
  IF Len(h.redoStack) > 0
  THEN LET command == Head(h.redoStack)
           popped == [h EXCEPT !.redoStack = Tail(@), !.ret = Some(command)]
           redone == HostEffect(Invoke(popped, command, "execute"))
           moved == [redone EXCEPT !.undoStack = Append(@, command)]
       IN IF redone.thrown THEN redone ELSE Emit(moved, StackChanged(moved))
  ELSE h

\* Faulty variant of RedoStep: the redone command goes to the front of undoStack (unshift for push).
RedoStepUnshift(h) ==
  IF Len(h.redoStack) > 0
  THEN LET command == Last(h.redoStack)
           popped == [h EXCEPT !.redoStack = Front(@), !.ret = Some(command)]
           redone == HostEffect(Invoke(popped, command, "execute"))
           moved == [redone EXCEPT !.undoStack = <<command>> \o @]
       IN IF redone.thrown THEN redone ELSE Emit(moved, StackChanged(moved))
  ELSE h

\* One iteration of the while loop of redo, before --step.
RedoStep(h) ==
  IF Len(h.redoStack) > 0
  THEN LET command == Last(h.redoStack)
           popped == [h EXCEPT !.redoStack = Front(@), !.ret = Some(command)]
           redone == HostEffect(Invoke(popped, command, "execute"))
           moved == [redone EXCEPT !.undoStack = Append(@, command)]
       IN IF redone.thrown THEN redone ELSE Emit(moved, StackChanged(moved))
  ELSE h

RECURSIVE RedoLoop(_, _)
RedoLoop(h, step) ==
  IF step # 0 /\ ~h.thrown THEN RedoLoop(RedoStep(h), step - 1) ELSE h

RedoOp(h, step) ==
  IF ~h.enabled
  THEN [h EXCEPT !.ret = Undefined]
  ELSE LET looped == RedoLoop([h EXCEPT !.ret = Undefined], step)
       IN IF looped.thrown
          THEN looped
          ELSE Emit(looped, [name |-> "history:redo", step |-> StepAfterLoop(step),
                             command |-> looped.ret])

\* ---------------------------------------------------------------- queries
\* Faulty variant of CanUndo: the answer is gated by the enabled flag.
CanUndoIfEnabled(h) == h.enabled /\ Len(h.undoStack) > 0

CanUndo(h) == Len(h.undoStack) > 0
CanRedo(h) == Len(h.redoStack) > 0
IsEnabled(h) == h.enabled

\* ---------------------------------------------------------------- jump
\* The top of undoStack, or undefined.
Top(us) == IF Len(us) > 0 THEN Some(Last(us)) ELSE Undefined

\* Faulty variant of JumpRedoMore: the walk goes on past the target (>= for >).
JumpRedoPastTarget(h, id) == h.ret # Undefined /\ id >= h.ret[1].id

\* while (command !== undefined && id > command.id) command = this.redo();
\* h.ret is the command the previous redo() returned.
JumpRedoMore(h, id) == h.ret # Undefined /\ id > h.ret[1].id

RECURSIVE JumpRedoWalk(_, _)
JumpRedoWalk(h, id) ==
  IF ~h.thrown /\ JumpRedoMore(h, id) THEN JumpRedoWalk(RedoOp(h, 1), id) ELSE h

\* Faulty variant of JumpUndoDone: the undo walk stops at the first id at or below the target.
JumpUndoStopsBelow(h, id) ==
  LET command == Top(h.undoStack)
  IN command = Undefined \/ id >= command[1].id

\* while (true) { command = top; if (command === undefined || id === command.id) break; this.undo(); }
JumpUndoDone(h, id) ==
  LET command == Top(h.undoStack)
  IN command = Undefined \/ id = command[1].id

RECURSIVE JumpUndoWalk(_, _)
JumpUndoWalk(h, id) ==
  IF h.thrown \/ JumpUndoDone(h, id) THEN h ELSE JumpUndoWalk(UndoOp(h, 1), id)

\* Faulty variant of JumpOp: the final stack:changed is left to the internal undo/redo steps.
JumpOpNoFinalNotice(h, id) ==
  IF ~h.enabled
  THEN [h EXCEPT !.ret = Undefined]
  ELSE LET command == Top(h.undoStack)
           walked == IF command = Undefined \/ id > command[1].id
                     THEN JumpRedoWalk(RedoOp(h, 1), id)
                     ELSE JumpUndoWalk(h, id)
       IN IF walked.thrown THEN walked ELSE [walked EXCEPT !.ret = Undefined]

JumpOp(h, id) ==
  IF ~h.enabled
  THEN [h EXCEPT !.ret = Undefined]
  ELSE LET command == Top(h.undoStack)
           walked == IF command = Undefined \/ id > command[1].id
                     THEN JumpRedoWalk(RedoOp(h, 1), id)
                     ELSE JumpUndoWalk(h, id)
           done == [walked EXCEPT !.ret = Undefined]
       IN IF walked.thrown THEN walked ELSE Emit(done, StackChanged(done))

\* ---------------------------------------------------------------- dispose
\* Faulty variant of DisposeOp: dispose also resets the id counter.
DisposeOpResetsCounter(h) ==
  LET cleared == [h EXCEPT !.undoStack = <<>>, !.redoStack = <<>>, !.idCounter = 0]
      first == Emit(cleared, StackChanged(cleared))
  IN Emit(first, [name |-> "history:destroy"])

DisposeOp(h) ==
  LET cleared == [h EXCEPT !.undoStack = <<>>, !.redoStack = <<>>]
      first == Emit(cleared, StackChanged(cleared))
  IN Emit(first, [name |-> "history:destroy"])

\* ---------------------------------------------------------------- actions
\* The engine state a call starts in.
Snapshot ==
  [undoStack |-> undoStack, redoStack |-> redoStack, idCounter |-> idCounter,
   stackSize |-> stackSize, enabled |-> enabled]

CallRecord(name, arg, needExecute) ==
  [name |-> name, arg |-> arg, needExecute |-> needExecute, pre |-> Snapshot]

\* Store the state a call leaves behind and what it returned, emitted and invoked.
Commit(record, h, result, assigned) ==
  /\ undoStack' = h.undoStack
  /\ redoStack' = h.redoStack
  /\ idCounter' = h.idCounter
  /\ stackSize' = h.stackSize
  /\ enabled' = h.enabled
  /\ installed' = h.installed
  /\ call' = record
  /\ prevCall' = call
  /\ ret' = IF h.thrown THEN Undefined ELSE result
  /\ emitted' = h.emitted
  /\ calls' = h.calls
  /\ idLog' = idLog \o assigned
  /\ thrown' = h.thrown
  /\ UNCHANGED <<selector, selCall, switchedOff>>

\* ---------------------------------------------------------------- Selector
historyVars == <<undoStack, redoStack, idCounter, stackSize, enabled, installed,
                 call, prevCall, ret, emitted, calls, idLog, thrown>>

\* The Selector when its constructor returns: the field initialisers, a rubber
\* rectangle and a transformer without nodes, the four mouse handlers subscribed.
SelectorConstructed ==
  [enable |-> FALSE,
   rubberEnable |-> FALSE,
   rubberStartPoint |-> [x |-> 0, y |-> 0],
   rubberRect |-> [position |-> [x |-> 0, y |-> 0], width |-> 0, height |-> 0,
                   visible |-> TRUE],
   selected |-> {},
   nodes |-> {},
   draggable |-> {},
   listening |-> TRUE,
   bodyCursor |-> "",
   stageCursor |-> ""]

\* cancelSelect(...children): no argument means every selected child
CancelSelectOp(s, children) ==
  LET removed == IF children = {} THEN s.selected ELSE children
      left == s.selected \ removed
  IN [s EXCEPT !.draggable = @ \ removed, !.selected = left, !.nodes = left]

\* select(...children)
SelectOp(s, children) ==
  IF ~s.enable
  THEN s
  ELSE LET cleared == CancelSelectOp(s, {})
       IN [cleared EXCEPT !.draggable = @ \cup children,
                          !.selected = children,
                          !.nodes = children]

\* triggerSelector(enable?)
TriggerSelectorOp(s, arg) ==
  LET flipped == [s EXCEPT !.enable = IF arg = "omitted" THEN ~@ ELSE arg = "true"]
  IN IF ~flipped.enable THEN [flipped EXCEPT !.rubberEnable = FALSE] ELSE flipped

\* onMouseDown: onStage is event.target instanceof Konva.Stage
OnMouseDownOp(s, onStage, pointer) ==
  IF ~s.enable
  THEN s
  ELSE IF onStage
       THEN [CancelSelectOp(s, {}) EXCEPT
               !.rubberStartPoint = pointer,
               !.rubberRect = [position |-> pointer, width |-> 0, height |-> 0,
                               visible |-> FALSE],
               !.rubberEnable = TRUE]
       ELSE s

\* onMouseMove: inTransformer is isPointInArea(pointer, transformer.getClientRect())
OnMouseMoveOp(s, onStage, inTransformer, pointer) ==
  IF ~s.enable
  THEN s
  ELSE LET pointed == [s EXCEPT !.bodyCursor = IF onStage \/ ~inTransformer
                                               THEN "default" ELSE "move"]
           position == [x |-> Min(pointer.x, s.rubberStartPoint.x),
                        y |-> Min(pointer.y, s.rubberStartPoint.y)]
           width == Max(pointer.x, s.rubberStartPoint.x) - position.x
           height == Max(pointer.y, s.rubberStartPoint.y) - position.y
       IN IF ~s.rubberEnable
          THEN pointed
          ELSE [pointed EXCEPT !.rubberRect = [position |-> position, width |-> width,
                                               height |-> height, visible |-> TRUE]]

\* onMouseUp: inArea is app.getShapesInArea(rubberRect)
OnMouseUpOp(s, inArea) ==
  IF ~s.enable
  THEN s
  ELSE LET picked == IF s.rubberEnable THEN SelectOp(s, inArea) ELSE s
       IN [picked EXCEPT !.rubberRect.visible = FALSE, !.rubberEnable = FALSE]

\* onMouseClick: target is the shape clicked, or "stage"
OnMouseClickOp(s, target) ==
  IF target = "stage" THEN s ELSE SelectOp(s, {target})

\* anchor.on('mousedown')
AnchorMouseDownOp(s) == [s EXCEPT !.enable = FALSE]

\* anchor.on('mouseup')
AnchorMouseUpOp(s) == [s EXCEPT !.enable = TRUE]

\* anchor.on('mouseenter'): rotater is anchor.hasName('rotater')
AnchorMouseEnterOp(s, rotater) ==
  LET off == [s EXCEPT !.enable = FALSE]
  IN IF ~rotater THEN off ELSE [off EXCEPT !.stageCursor = "grab"]

\* anchor.on('mouseout')
AnchorMouseOutOp(s, rotater) ==
  LET on == [s EXCEPT !.enable = TRUE]
  IN IF ~rotater THEN on ELSE [on EXCEPT !.stageCursor = ""]

\* dispose(): handlers unsubscribed, selection cleared, transformer destroyed
SelectorDisposeOp(s) ==
  [s EXCEPT !.listening = FALSE, !.selected = {}, !.enable = FALSE, !.nodes = {}]

\* Store the state a Selector method or handler leaves behind.
SelectorCommit(name, s, off) ==
  /\ selector' = s
  /\ selCall' = name
  /\ switchedOff' = off
  /\ UNCHANGED historyVars

TriggerSelector(arg) ==
  LET s == TriggerSelectorOp(selector, arg)
  IN SelectorCommit("triggerSelector", s, ~s.enable)

Select(children) ==
  SelectorCommit("select", SelectOp(selector, children), switchedOff)

CancelSelect(children) ==
  SelectorCommit("cancelSelect", CancelSelectOp(selector, children), switchedOff)

\* app.emit('mouse:down' | 'mouse:move' | 'mouse:up' | 'mouse:click') reaches the
\* Selector while its handlers are subscribed.
MouseDown(onStage, pointer) ==
  /\ selector.listening
  /\ SelectorCommit("mouse:down", OnMouseDownOp(selector, onStage, pointer), switchedOff)

MouseMove(onStage, inTransformer, pointer) ==
  /\ selector.listening
  /\ SelectorCommit("mouse:move", OnMouseMoveOp(selector, onStage, inTransformer, pointer),
                    switchedOff)

MouseUp(inArea) ==
  /\ selector.listening
  /\ SelectorCommit("mouse:up", OnMouseUpOp(selector, inArea), switchedOff)

MouseClick(target) ==
  /\ selector.listening
  /\ SelectorCommit("mouse:click", OnMouseClickOp(selector, target), switchedOff)

\* The pointer reaches an anchor of the transformer: the transformer exists and
\* frames at least one node.
AnchorOnScreen == selector.listening /\ selector.nodes # {}

AnchorMouseDown ==
  /\ AnchorOnScreen
  /\ SelectorCommit("anchor:mousedown", AnchorMouseDownOp(selector), switchedOff)

AnchorMouseUp ==
  /\ AnchorOnScreen
  /\ SelectorCommit("anchor:mouseup", AnchorMouseUpOp(selector), switchedOff)

AnchorMouseEnter(rotater) ==
  /\ AnchorOnScreen
  /\ SelectorCommit("anchor:mouseenter", AnchorMouseEnterOp(selector, rotater), switchedOff)

AnchorMouseOut(rotater) ==
  /\ AnchorOnScreen
  /\ SelectorCommit("anchor:mouseout", AnchorMouseOutOp(selector, rotater), switchedOff)

SelectorDispose ==
  /\ selector.listening
  /\ SelectorCommit("dispose", SelectorDisposeOp(selector), TRUE)

\* constructor(options): enabled and stackSize come from the options
Init ==
  /\ undoStack = <<>>
  /\ redoStack = <<>>
  /\ idCounter = 0
  /\ stackSize \in StackSizes
  /\ enabled \in BOOLEAN
  /\ installed = FALSE
  /\ call = CallRecord("constructor", 0, "omitted")
  /\ prevCall = CallRecord("constructor", 0, "omitted")
  /\ ret = Undefined
  /\ emitted = <<>>
  /\ calls = <<>>
  /\ idLog = <<>>
  /\ thrown = FALSE
  /\ selector = SelectorConstructed
  /\ selCall = "constructor"
  /\ switchedOff = FALSE

\* App.use(plugin) calls install once per plugin name
Install ==
  /\ ~installed
  /\ Commit(CallRecord("install", 0, "omitted"), [Here EXCEPT !.installed = TRUE], Undefined, <<>>)

SetStackSize(size) ==
  Commit(CallRecord("setStackSize", size, "omitted"), SetStackSizeOp(Here, size), Undefined, <<>>)

Execute(needExecute) ==
  LET h == ExecuteOp(Here, needExecute)
  IN /\ Len(idLog) < MaxCmds
     /\ Commit(CallRecord("execute", 0, needExecute), h, Undefined,
               <<Last(h.undoStack).id>>)

Undo(step) ==
  LET h == UndoOp(Here, step)
  IN Commit(CallRecord("undo", step, "omitted"), h, h.ret, <<>>)

Redo(step) ==
  LET h == RedoOp(Here, step)
  IN Commit(CallRecord("redo", step, "omitted"), h, h.ret, <<>>)

CanUndoCall ==
  Commit(CallRecord("canUndo", 0, "omitted"), Here, <<CanUndo(Here)>>, <<>>)

CanRedoCall ==
  Commit(CallRecord("canRedo", 0, "omitted"), Here, <<CanRedo(Here)>>, <<>>)

Jump(id) ==
  LET h == JumpOp(Here, id)
  IN Commit(CallRecord("jump", id, "omitted"), h, h.ret, <<>>)

Dispose ==
  Commit(CallRecord("dispose", 0, "omitted"), DisposeOp(Here), Undefined, <<>>)

Enable ==
  Commit(CallRecord("enable", 0, "omitted"), [Here EXCEPT !.enabled = TRUE], Undefined, <<>>)

Disable ==
  Commit(CallRecord("disable", 0, "omitted"), [Here EXCEPT !.enabled = FALSE], Undefined, <<>>)

IsEnabledCall ==
  Commit(CallRecord("isEnabled", 0, "omitted"), Here, <<IsEnabled(Here)>>, <<>>)

Next ==
  \/ Install
  \/ \E size \in StackSizes : SetStackSize(size)
  \/ \E needExecute \in NeedExecuteVals : Execute(needExecute)
  \/ \E step \in Steps : Undo(step)
  \/ \E step \in Steps : Redo(step)
  \/ CanUndoCall
  \/ CanRedoCall
  \/ \E id \in JumpIds : Jump(id)
  \/ Dispose
  \/ Enable
  \/ Disable
  \/ IsEnabledCall

Spec == Init /\ [][Next]_vars

\* execute(c, true) whose c.execute() raises.
ExecuteRaises ==
  LET h == ExecuteOp(Raising(1), "true")
  IN /\ Len(idLog) < MaxCmds
     /\ h.thrown
     /\ Commit(CallRecord("execute", 0, "true"), h, Undefined, <<Last(h.undoStack).id>>)

\* undo(step) during which the failAt-th command.undo() raises.
UndoRaises(step, failAt) ==
  LET h == UndoOp(Raising(failAt), step)
  IN /\ h.thrown
     /\ Commit(CallRecord("undo", step, "omitted"), h, h.ret, <<>>)

\* redo(step) during which the failAt-th command.execute() raises.
RedoRaises(step, failAt) ==
  LET h == RedoOp(Raising(failAt), step)
  IN /\ h.thrown
     /\ Commit(CallRecord("redo", step, "omitted"), h, h.ret, <<>>)

\* A History whose commands may raise from execute() and undo(), followed up to
\* the first call that ends with an exception.
NextRaising ==
  \/ ~thrown /\ Install
  \/ ~thrown /\ \E size \in StackSizes : SetStackSize(size)
  \/ ~thrown /\ \E needExecute \in NeedExecuteVals : Execute(needExecute)
  \/ ~thrown /\ \E step \in Steps : Undo(step)
  \/ ~thrown /\ \E step \in Steps : Redo(step)
  \/ ~thrown /\ \E id \in JumpIds : Jump(id)
  \/ ~thrown /\ Enable
  \/ ~thrown /\ Disable
  \/ ~thrown /\ ExecuteRaises
  \/ ~thrown /\ \E step \in Steps, failAt \in 1..MaxStep : UndoRaises(step, failAt)
  \/ ~thrown /\ \E step \in Steps, failAt \in 1..MaxStep : RedoRaises(step, failAt)

SpecRaising == Init /\ [][NextRaising]_vars

\* The ids the object:added observer assigned during a call that ends in h.
AssignedInside(h) == [i \in 1..(h.idCounter - idCounter) |-> idCounter + i]

\* undo(step) whose command.undo() calls make the canvas fire object:added.
UndoFiring(step) ==
  LET h == UndoOp(Firing, step)
  IN /\ h.idCounter > idCounter
     /\ Len(idLog) + Len(AssignedInside(h)) <= MaxCmds
     /\ Commit(CallRecord("undo", step, "omitted"), h, h.ret, AssignedInside(h))

\* redo(step) whose command.execute() calls make the canvas fire object:added.
RedoFiring(step) ==
  LET h == RedoOp(Firing, step)
  IN /\ h.idCounter > idCounter
     /\ Len(idLog) + Len(AssignedInside(h)) <= MaxCmds
     /\ Commit(CallRecord("redo", step, "omitted"), h, h.ret, AssignedInside(h))

\* A History installed in a host whose canvas fires object:added whenever an
\* object is added, also when a command of the History adds it.
NextHost ==
  \/ Install
  \/ \E size \in StackSizes : SetStackSize(size)
  \/ \E needExecute \in NeedExecuteVals : Execute(needExecute)
  \/ \E step \in Steps : Undo(step)
  \/ \E step \in Steps : Redo(step)
  \/ \E id \in JumpIds : Jump(id)
  \/ Enable
  \/ Disable
  \/ \E step \in Steps : UndoFiring(step)
  \/ \E step \in Steps : RedoFiring(step)

SpecHost == Init /\ [][NextHost]_vars

\* The Selector of an app whose History is left alone.
SelectorInit ==
  /\ Init
  /\ stackSize = 1
  /\ enabled

NextSelector ==
  \/ \E arg \in EnableArgs : TriggerSelector(arg)
  \/ \E children \in SUBSET Children : Select(children)
  \/ \E children \in SUBSET Children : CancelSelect(children)
  \/ \E onStage \in BOOLEAN, pointer \in Points : MouseDown(onStage, pointer)
  \/ \E onStage \in BOOLEAN, inTransformer \in BOOLEAN, pointer \in Points :
       MouseMove(onStage, inTransformer, pointer)
  \/ \E inArea \in SUBSET Children : MouseUp(inArea)
  \/ \E target \in Children \cup {"stage"} : MouseClick(target)
  \/ AnchorMouseDown
  \/ AnchorMouseUp
  \/ \E rotater \in BOOLEAN : AnchorMouseEnter(rotater)
  \/ \E rotater \in BOOLEAN : AnchorMouseOut(rotater)
  \/ SelectorDispose

SpecSelector == SelectorInit /\ [][NextSelector]_vars

\* A History whose capacity stays the one the constructor was given: no setStackSize call.
NextFixedCapacity ==
  \/ Install
  \/ \E needExecute \in NeedExecuteVals : Execute(needExecute)
  \/ \E step \in Steps : Undo(step)
  \/ \E step \in Steps : Redo(step)
  \/ CanUndoCall
  \/ CanRedoCall
  \/ \E id \in JumpIds : Jump(id)
  \/ Dispose
  \/ Enable
  \/ Disable
  \/ IsEnabledCall

SpecFixedCapacity == Init /\ [][NextFixedCapacity]_vars

\* A History that, once constructed and possibly installed, only receives execute calls.
NextExecute ==
  \/ Install
  \/ \E needExecute \in NeedExecuteVals : Execute(needExecute)

SpecExecute == Init /\ [][NextExecute]_vars

\* ================================================================ claims
\* The ids of the commands of a stack.
Ids(s) == {s[i].id : i \in 1..Len(s)}

\* C1: after each execute call of a History that only receives execute calls,
\* undoStack holds at most stackSize commands.
C1_UndoStackWithinCapacity ==
  call.name = "execute" => Len(undoStack) <= stackSize

\* C2: when execute returns, redoStack is empty, whatever it held before and
\* whatever needExecute and enabled are.
C2_ExecuteClearsRedo ==
  call.name = "execute" => redoStack = <<>>

\* An execute call made while disabled, on a History whose redoStack held commands.
C2_Witness ==
  /\ call.name = "execute"
  /\ call.pre.redoStack # <<>>
  /\ ~call.pre.enabled
  /\ redoStack = <<>>

\* undo() immediately followed by redo(), the engine enabled and undoStack non-empty.
UndoThenRedo ==
  /\ prevCall.name = "undo"
  /\ prevCall.arg = 1
  /\ prevCall.pre.enabled
  /\ prevCall.pre.undoStack # <<>>
  /\ call.name = "redo"
  /\ call.arg = 1

\* C3: undo() immediately followed by redo() leaves undoStack and redoStack as
\* they were before the undo: the same commands in the same order.
C3_UndoThenRedoRestores ==
  UndoThenRedo =>
    /\ undoStack = prevCall.pre.undoStack
    /\ redoStack = prevCall.pre.redoStack

\* undo() then redo() on a History with several applied and several undone commands.
C3_Witness ==
  /\ UndoThenRedo
  /\ Len(prevCall.pre.undoStack) >= 2
  /\ prevCall.pre.redoStack # <<>>
  /\ calls = <<[cmd |-> Last(undoStack).id, method |-> "execute"]>>

\* C4: while the engine is disabled, undo, redo and jump change neither stack
\* nor idCounter, invoke no command, emit nothing and return undefined; execute
\* ignores the gate: it pushes the command with a new id and clears redoStack.
C4_DisabledGate ==
  /\ (call.name \in {"undo", "redo", "jump"} /\ ~call.pre.enabled) =>
       /\ undoStack = call.pre.undoStack
       /\ redoStack = call.pre.redoStack
       /\ idCounter = call.pre.idCounter
       /\ calls = <<>>
       /\ emitted = <<>>
       /\ ret = Undefined
  /\ (call.name = "execute" /\ ~call.pre.enabled) =>
       /\ undoStack # <<>>
       /\ Last(undoStack).id = idCounter
       /\ idCounter = call.pre.idCounter + 1
       /\ idCounter \notin Ids(call.pre.undoStack) \cup Ids(call.pre.redoStack)
       /\ Front(undoStack) = IF Len(call.pre.undoStack) > stackSize
                             THEN Tail(call.pre.undoStack)
                             ELSE call.pre.undoStack
       /\ redoStack = <<>>

\* undo(step >= 1) called on a disabled, installed History with commands on both stacks.
C4_Witness ==
  /\ call.name = "undo"
  /\ call.arg >= 1
  /\ ~call.pre.enabled
  /\ installed
  /\ undoStack # <<>>
  /\ redoStack # <<>>

\* The ids retained on either stack when the last call started.
RetainedBefore == Ids(call.pre.undoStack) \cup Ids(call.pre.redoStack)

\* jump(id) called while enabled with the id of a retained command.
JumpToRetained ==
  /\ call.name = "jump"
  /\ call.pre.enabled
  /\ call.arg \in RetainedBefore

\* C5: when enabled, jump(id) to the id of a retained command ends with that
\* command at the tail of undoStack, every retained command with a smaller id
\* below it in undoStack and every retained command with a larger id in redoStack.
C5_JumpLandsOnTarget ==
  JumpToRetained =>
    /\ undoStack # <<>>
    /\ Last(undoStack).id = call.arg
    /\ \A i \in RetainedBefore : i < call.arg => i \in Ids(Front(undoStack))
    /\ \A i \in RetainedBefore : i > call.arg => i \in Ids(redoStack)

\* A forward jump over one undone command onto another, and nothing left to redo after.
C5_Witness ==
  /\ JumpToRetained
  /\ Len(call.pre.redoStack) >= 2
  /\ call.arg = call.pre.redoStack[1].id
  /\ call.pre.undoStack # <<>>

\* C6: the ids in undoStack, read from index 1 (oldest) to the tail (newest),
\* are strictly increasing in every reachable state.
C6_UndoIdsIncreasing ==
  \A i, j \in 1..Len(undoStack) : i < j => undoStack[i].id < undoStack[j].id

\* A redo (directly or through jump) has rebuilt an undoStack whose oldest id was lost.
C6_Witness ==
  /\ call.name \in {"redo", "jump"}
  /\ Len(undoStack) >= 2
  /\ Len(undoStack) > Len(call.pre.undoStack)
  /\ undoStack[1].id > 1

\* C7: the ids assigned by successive execute calls are strictly increasing over
\* the whole session, so no id is assigned twice, also after eviction, after the
\* redo stack was cleared and after dispose.
C7_IdsNeverReused ==
  \A i, j \in 1..Len(idLog) : i < j => idLog[i] < idLog[j]

\* An execute after a dispose that dropped commands: the new id is above the lost ones.
C7_Witness ==
  /\ call.name = "execute"
  /\ prevCall.name = "dispose"
  /\ prevCall.pre.undoStack # <<>>
  /\ prevCall.pre.redoStack # <<>>
  /\ Len(idLog) >= 3
  /\ undoStack = <<[id |-> Last(idLog), executed |-> TRUE]>>

\* undo(step) called while enabled with a positive step.
UndoCalled ==
  /\ call.name = "undo"
  /\ call.pre.enabled
  /\ call.arg >= 1

\* C8: when enabled, undo(step) with step >= 1 on an undoStack of length n moves
\* exactly min(step, n) commands, one at a time, from the tail of undoStack to
\* the tail of redoStack, calls command.undo() once on each in that order, and
\* returns the last command moved, or undefined when n = 0.
C8_UndoMovesMinStepN ==
  UndoCalled =>
    LET before == call.pre.undoStack
        n == Len(before)
        k == Min(call.arg, n)
    IN /\ undoStack = SubSeq(before, 1, n - k)
       /\ redoStack = call.pre.redoStack \o [i \in 1..k |-> before[n - i + 1]]
       /\ calls = [i \in 1..k |-> [cmd |-> before[n - i + 1].id, method |-> "undo"]]
       /\ ret = IF n = 0 THEN Undefined ELSE Some(before[n - k + 1])

\* undo(2) on an undoStack [.., C, D] of three commands: only the oldest stays.
C8_Witness ==
  /\ UndoCalled
  /\ call.arg = 2
  /\ Len(call.pre.undoStack) = 3
  /\ Len(undoStack) = 1
  /\ ret = Some(call.pre.undoStack[2])

\* C9: canUndo() answers whether undoStack is non-empty and canRedo() whether
\* redoStack is non-empty, whatever the enabled flag.
C9_CanUndoCanRedo ==
  /\ call.name = "canUndo" => ret = <<Len(undoStack) > 0>>
  /\ call.name = "canRedo" => ret = <<Len(redoStack) > 0>>

\* canUndo() answers true on a disabled History that holds applied commands.
C9_Witness ==
  /\ call.name = "canUndo"
  /\ ~enabled
  /\ undoStack # <<>>
  /\ ret = <<TRUE>>

\* C10: execute(c, needExecute) invokes c.execute() exactly once when needExecute
\* is true and not at all when it is false or omitted; either way c is pushed on
\* undoStack with a new id and executed = true, redoStack is cleared and the
\* same stack:changed notification is emitted.
C10_NeedExecuteOnlyApplies ==
  call.name = "execute" =>
    /\ calls = IF call.needExecute = "true"
               THEN <<[cmd |-> idCounter, method |-> "execute"]>>
               ELSE <<>>
    /\ idCounter = call.pre.idCounter + 1
    /\ undoStack = (IF Len(call.pre.undoStack) > stackSize
                    THEN Tail(call.pre.undoStack)
                    ELSE call.pre.undoStack) \o <<[id |-> idCounter, executed |-> TRUE]>>
    /\ redoStack = <<>>
    /\ emitted = IF installed
                 THEN <<[name |-> "stack:changed", undoStack |-> undoStack,
                         redoStack |-> redoStack]>>
                 ELSE <<>>

\* execute(c) with needExecute omitted, as the object:added handler calls it, on
\* an installed History with commands to redo.
C10_Witness ==
  /\ call.name = "execute"
  /\ call.needExecute = "omitted"
  /\ installed
  /\ call.pre.redoStack # <<>>
  /\ calls = <<>>
  /\ Last(undoStack).executed

\* An execute call that found undoStack longer than the capacity, and so evicted.
ExecuteEvicted ==
  /\ call.name = "execute"
  /\ Len(call.pre.undoStack) > call.pre.stackSize

\* C11: eviction in execute removes exactly the entry at index 0 of undoStack,
\* the retained command with the smallest id, keeps the other commands in their
\* order, never calls the evicted command's undo() and leaves redoStack to the
\* clear that execute performs anyway.
C11_EvictionDropsOldest ==
  ExecuteEvicted =>
    /\ Front(undoStack) = Tail(call.pre.undoStack)
    /\ \A i \in Ids(Tail(call.pre.undoStack)) : Head(call.pre.undoStack).id < i
    /\ Head(call.pre.undoStack).id \notin Ids(undoStack) \cup Ids(redoStack)
    /\ \A i \in 1..Len(calls) : calls[i] = [cmd |-> idCounter, method |-> "execute"]
    /\ redoStack = <<>>

\* An evicting execute(c, true) on a stack of at least two commands.
C11_Witness ==
  /\ ExecuteEvicted
  /\ call.needExecute = "true"
  /\ Len(call.pre.undoStack) >= 2
  /\ Len(undoStack) = Len(call.pre.undoStack)

UndoOrRedoNotified ==
  /\ call.name \in {"undo", "redo"}
  /\ call.pre.enabled
  /\ installed
  /\ call.arg >= 1

\* C13: the history:undo (history:redo) notification that ends undo(step)
\* (redo(step)) carries the last command processed and, as its step, the number
\* of requested steps the stack could not satisfy: step - min(step, n) for a
\* stack of length n at the call.
C13_StepPayloadIsShortfall ==
  UndoOrRedoNotified =>
    LET n == IF call.name = "undo"
             THEN Len(call.pre.undoStack)
             ELSE Len(call.pre.redoStack)
    IN /\ emitted # <<>>
       /\ Last(emitted) = [name |-> IF call.name = "undo" THEN "history:undo"
                                                          ELSE "history:redo",
                           step |-> call.arg - Min(call.arg, n),
                           command |-> ret]

\* The positions of the stack:changed notifications among those the last call emitted.
StackChangedAt == {i \in 1..Len(emitted) : emitted[i].name = "stack:changed"}

\* The last call changed undoStack or redoStack of an installed History.
StacksChanged ==
  /\ installed
  /\ call.name # "constructor"
  /\ (undoStack # call.pre.undoStack \/ redoStack # call.pre.redoStack)

\* The stack:changed payload emitted once i commands have moved from the tail
\* of stack from onto the tail of stack to.
MovedPayload(from, to, i, undoing) ==
  LET n == Len(from)
      left == SubSeq(from, 1, n - i)
      grown == to \o [j \in 1..i |-> from[n - j + 1]]
  IN [name |-> "stack:changed",
      undoStack |-> IF undoing THEN left ELSE grown,
      redoStack |-> IF undoing THEN grown ELSE left]

\* C14: on an installed History every call that changes undoStack or redoStack
\* emits, before it returns, a stack:changed notification, and the last one it
\* emits carries the stacks the call leaves; undo(step) and redo(step) emit
\* exactly one stack:changed per command moved, each carrying the stacks as they
\* are right after that move, and then exactly one history:undo / history:redo.
C14_StackChangedPerMove ==
  /\ StacksChanged =>
       /\ StackChangedAt # {}
       /\ \E m \in StackChangedAt :
            /\ \A i \in StackChangedAt : i <= m
            /\ emitted[m].undoStack = undoStack
            /\ emitted[m].redoStack = redoStack
  /\ (call.name \in {"undo", "redo"} /\ call.pre.enabled /\ installed) =>
       LET undoing == call.name = "undo"
           from == IF undoing THEN call.pre.undoStack ELSE call.pre.redoStack
           to == IF undoing THEN call.pre.redoStack ELSE call.pre.undoStack
           k == Min(call.arg, Len(from))
       IN /\ Len(emitted) = k + 1
          /\ \A i \in 1..k : emitted[i] = MovedPayload(from, to, i, undoing)
          /\ emitted[k + 1].name = IF undoing THEN "history:undo" ELSE "history:redo"

\* undo(2) on an installed History moved two commands: two stack:changed, one history:undo.
C14_Witness ==
  /\ call.name = "undo"
  /\ call.arg = 2
  /\ installed
  /\ Len(call.pre.undoStack) >= 2
  /\ call.pre.redoStack # <<>>
  /\ Len(emitted) = 3
  /\ StackChangedAt = {1, 2}

\* jump(id) called on an enabled, installed History.
JumpNotified ==
  /\ call.name = "jump"
  /\ call.pre.enabled
  /\ installed

\* jump(id) with the id of the command at the top of undoStack.
JumpToTop ==
  /\ JumpNotified
  /\ call.pre.undoStack # <<>>
  /\ call.arg = Last(call.pre.undoStack).id

\* C15: when enabled, jump(id) ends with one final stack:changed notification
\* carrying the resulting stacks, after the notifications of all its internal
\* undo/redo steps; when id is the id of the current top of undoStack, jump
\* changes neither stack, invokes no command and emits that notification only.
C15_JumpFinalNotice ==
  /\ JumpNotified =>
       /\ emitted # <<>>
       /\ Last(emitted) = [name |-> "stack:changed", undoStack |-> undoStack,
                           redoStack |-> redoStack]
       /\ \A i \in 1..(Len(emitted) - 1) :
            emitted[i].name \in {"stack:changed", "history:undo", "history:redo"}
       /\ Len(calls) = Cardinality(StackChangedAt) - 1
  /\ JumpToTop =>
       /\ undoStack = call.pre.undoStack
       /\ redoStack = call.pre.redoStack
       /\ calls = <<>>
       /\ Len(emitted) = 1

\* jump to the id already on top, on an installed History with commands on both stacks.
C15_Witness ==
  /\ JumpToTop
  /\ Len(call.pre.undoStack) >= 2
  /\ call.pre.redoStack # <<>>
  /\ emitted = <<[name |-> "stack:changed", undoStack |-> undoStack,
                  redoStack |-> redoStack]>>

\* jump(targetId) called while enabled with an id no retained command carries.
JumpToMissing ==
  /\ call.name = "jump"
  /\ call.pre.enabled
  /\ call.arg \notin RetainedBefore

\* The jump walks forward: undoStack was empty or its top id was below the target.
JumpForward ==
  \/ call.pre.undoStack = <<>>
  \/ call.arg > Last(call.pre.undoStack).id

\* How many commands the forward walk redoes: up to and including the first one
\* popped from redoStack whose id is >= targetId, or all of them if there is none.
RedoneByWalk ==
  LET rs == call.pre.redoStack
      m == Len(rs)
      hits == {k \in 1..m : rs[m - k + 1].id >= call.arg}
  IN IF hits = {} THEN m ELSE CHOOSE k \in hits : \A j \in hits : k <= j

\* C16: when enabled, jump(targetId) for an id no retained command carries walks
\* literally: forward, it redoes one command at a time and stops at the first
\* new top whose id is >= targetId, or when redoStack is exhausted; otherwise it
\* undoes one command at a time until undoStack is empty.
C16_JumpMissingBoundary ==
  JumpToMissing =>
    IF JumpForward
    THEN LET rs == call.pre.redoStack
             m == Len(rs)
             k == RedoneByWalk
         IN /\ undoStack = call.pre.undoStack \o [i \in 1..k |-> rs[m - i + 1]]
            /\ redoStack = SubSeq(rs, 1, m - k)
            /\ calls = [i \in 1..k |-> [cmd |-> rs[m - i + 1].id, method |-> "execute"]]
            /\ \A i \in Ids(Front(undoStack)) : i < call.arg
    ELSE LET us == call.pre.undoStack
             n == Len(us)
         IN /\ undoStack = <<>>
            /\ redoStack = call.pre.redoStack \o [i \in 1..n |-> us[n - i + 1]]
            /\ calls = [i \in 1..n |-> [cmd |-> us[n - i + 1].id, method |-> "undo"]]

\* A forward jump to a lost id lying between two undone commands: it lands on the
\* first command above the target.
C16_Witness ==
  /\ JumpToMissing
  /\ JumpForward
  /\ Len(call.pre.redoStack) >= 2
  /\ Len(calls) = 2
  /\ Last(undoStack).id > call.arg
  /\ \E i \in Ids(Front(undoStack)) : i < call.arg

\* C17: with the capacity held fixed at stackSize, undoStack never holds more
\* than stackSize + 1 commands, also after redo and jump, which push without an
\* eviction check; stackSize + 1 commands can be held.
C17_AtMostCapacityPlusOne ==
  Len(undoStack) <= stackSize + 1

\* redo or jump has pushed undoStack back up to stackSize + 1 commands.
C17_Witness ==
  /\ call.name \in {"redo", "jump"}
  /\ Len(undoStack) = stackSize + 1
  /\ Len(call.pre.undoStack) < Len(undoStack)

\* An execute call that directly follows a setStackSize call.
ExecuteAfterResize ==
  /\ call.name = "execute"
  /\ prevCall.name = "setStackSize"

\* C18: setStackSize(n) changes neither undoStack nor redoStack, also when n is
\* below the current length of undoStack; the new capacity only decides the
\* eviction check of later execute calls, each of which evicts at most one entry.
C18_ResizeNotRetroactive ==
  /\ call.name = "setStackSize" =>
       /\ undoStack = call.pre.undoStack
       /\ redoStack = call.pre.redoStack
       /\ stackSize = call.arg
       /\ emitted = <<>>
  /\ call.name = "execute" =>
       Len(undoStack) \in {Len(call.pre.undoStack), Len(call.pre.undoStack) + 1}
  /\ ExecuteAfterResize =>
       /\ call.pre.undoStack = prevCall.pre.undoStack
       /\ Len(undoStack) = IF Len(call.pre.undoStack) > prevCall.arg
                           THEN Len(call.pre.undoStack)
                           ELSE Len(call.pre.undoStack) + 1

\* setStackSize(n) with n below the length of undoStack, then an execute that
\* evicts one entry under the new capacity.
C18_Witness ==
  /\ ExecuteAfterResize
  /\ prevCall.arg < Len(prevCall.pre.undoStack)
  /\ prevCall.arg < prevCall.pre.stackSize
  /\ Len(undoStack) = Len(call.pre.undoStack)
  /\ undoStack[1] = call.pre.undoStack[2]

\* C19: when command.execute() raises inside execute(c, true), the exception
\* reaches the caller and the push stays: c is the tail of undoStack (after the
\* usual eviction) with the next id, idCounter has advanced, and nothing after
\* the apply has run: executed is not stamped, redoStack is what it was, and
\* no stack:changed was emitted.
C19_ExecuteFailsForward ==
  (call.name = "execute" /\ thrown) =>
    LET id == call.pre.idCounter + 1
        kept == IF Len(call.pre.undoStack) > call.pre.stackSize
                THEN Tail(call.pre.undoStack)
                ELSE call.pre.undoStack
    IN /\ undoStack = Append(kept, [id |-> id, executed |-> FALSE])
       /\ idCounter = id
       /\ redoStack = call.pre.redoStack
       /\ emitted = <<>>
       /\ calls = <<[cmd |-> id, method |-> "execute"]>>
       /\ ret = Undefined

\* execute(c, true) raised on an installed History that had commands to redo.
C19_Witness ==
  /\ call.name = "execute"
  /\ thrown
  /\ installed
  /\ call.pre.redoStack # <<>>
  /\ call.pre.undoStack # <<>>

\* C20: when the j-th command.undo() of an undo call (command.execute() of a
\* redo call) raises, the exception reaches the caller with the stacks already
\* changed: the j commands invoked have left the source stack, only the j - 1
\* that returned were pushed on the other stack, so the failing command is on
\* neither stack; no later step runs and no history:undo / history:redo is
\* emitted (only the stack:changed of the j - 1 completed steps).
C20_UndoRedoFailForward ==
  (call.name \in {"undo", "redo"} /\ thrown) =>
    LET undoing == call.name = "undo"
        from == IF undoing THEN call.pre.undoStack ELSE call.pre.redoStack
        to == IF undoing THEN call.pre.redoStack ELSE call.pre.undoStack
        n == Len(from)
        j == Len(calls)
    IN /\ j \in 1..Min(call.arg, n)
       /\ calls[j] = [cmd |-> from[n - j + 1].id,
                      method |-> IF undoing THEN "undo" ELSE "execute"]
       /\ (IF undoing THEN undoStack ELSE redoStack) = SubSeq(from, 1, n - j)
       /\ (IF undoing THEN redoStack ELSE undoStack) =
            to \o [i \in 1..(j - 1) |-> from[n - i + 1]]
       /\ from[n - j + 1].id \notin Ids(undoStack) \cup Ids(redoStack)
       /\ Len(emitted) = IF installed THEN j - 1 ELSE 0
       /\ \A i \in 1..Len(emitted) : emitted[i] = MovedPayload(from, to, i, undoing)
       /\ ret = Undefined

\* The first command.undo() of an undo(2) raised on an installed History with
\* two commands to undo: one command is lost, the other stays on undoStack.
C20_Witness ==
  /\ call.name = "undo"
  /\ thrown
  /\ call.arg = 2
  /\ installed
  /\ Len(calls) = 1
  /\ Len(call.pre.undoStack) >= 2
  /\ Len(undoStack) = Len(call.pre.undoStack) - 1
  /\ redoStack = call.pre.redoStack

\* A sequence in reverse order.
Reverse(s) == [i \in 1..Len(s) |-> s[Len(s) - i + 1]]

\* The combined timeline: the applied commands, then the undone ones, oldest first.
Timeline(us, rs) == us \o Reverse(rs)

\* C21: undo(step), redo(step) and jump(id) only move the cursor: the timeline
\* undoStack followed by reverse(redoStack) is the same sequence of commands
\* before and after the call (indeed after every call but execute and dispose);
\* so every id on redoStack is greater than every id on undoStack and no
\* command is on both stacks.
C21_TimelinePreserved ==
  /\ call.name \notin {"constructor", "execute", "dispose"} =>
       Timeline(undoStack, redoStack) = Timeline(call.pre.undoStack, call.pre.redoStack)
  /\ \A i \in 1..Len(undoStack), j \in 1..Len(redoStack) :
       /\ undoStack[i].id < redoStack[j].id
       /\ undoStack[i] # redoStack[j]

\* jump(id) walked two commands back, onto a redoStack that already held one.
C21_Witness ==
  /\ call.name = "jump"
  /\ call.pre.redoStack # <<>>
  /\ Len(undoStack) = Len(call.pre.undoStack) - 2
  /\ Len(redoStack) = 3

\* C22: with the object:added observer installed, an undo or redo whose
\* commands make the canvas fire object:added records no additional command
\* (no new id, the same commands on the two stacks) and does not clear
\* redoStack; after redo(1) undoStack has grown by exactly the one redone
\* command and redoStack has shrunk by exactly one.
C22_MutationRecordedOnce ==
  (call.name \in {"undo", "redo"} /\ installed) =>
    /\ idCounter = call.pre.idCounter
    /\ Timeline(undoStack, redoStack) = Timeline(call.pre.undoStack, call.pre.redoStack)
    /\ (call.name = "redo" /\ call.arg = 1 /\ call.pre.enabled /\ call.pre.redoStack # <<>>) =>
         /\ undoStack = Append(call.pre.undoStack, Last(call.pre.redoStack))
         /\ redoStack = Front(call.pre.redoStack)

\* The Selector methods and handlers that are gated by enable.
GatedBySelectorEnable == {"select", "mouse:down", "mouse:move", "mouse:up"}

\* C23: once triggerSelector(false) or dispose has disabled the Selector it
\* stays disabled until triggerSelector is called again: enable is false after
\* every other method or handler, pointer events on a transformer anchor
\* included, and select() and the mouse down / move / up handlers change
\* nothing meanwhile.
C23_StaysDisabled ==
  [][switchedOff' =>
       /\ ~selector'.enable
       /\ (switchedOff /\ selCall' \in GatedBySelectorEnable) => selector' = selector]_vars

\* C24: the mouse-up that follows a mouse-down on the stage ends the rubber
\* band: after it rubberEnable is false and the rubber rectangle is hidden,
\* whatever mouse-move and anchor events came in between; and, while the
\* Selector is subscribed, rubberEnable implies enable.
C24_RubberBandEnds ==
  [][/\ (selCall' = "mouse:up" /\ selector.rubberEnable) =>
          (~selector'.rubberEnable /\ ~selector'.rubberRect.visible)
     /\ (selector'.listening /\ selector'.rubberEnable) => selector'.enable]_vars

====
